---- MODULE Spec2Model ----
(***************************************************************************)
(* A model of snps.go: the IUPAC bitmask codec, the FASTA reader, the      *)
(* getSNPs worker pool, the ordered writer, the aggregate writer and the   *)
(* snps() coordinator with its channels.                                   *)
(*                                                                         *)
(* A Go string or []byte is a sequence of one-character strings; a         *)
(* goroutine is a record with a pc; an unbuffered channel operation is a   *)
(* joint step of sender and receiver; the buffered channel cSNPs is a      *)
(* sequence.  Code between two channel operations of one goroutine touches *)
(* only that goroutine's locals and is taken in one step with the channel  *)
(* operation that precedes it.                                             *)
(*                                                                         *)
(* Of the file system's failures only that of os.Create is here: os.Open,  *)
(* WriteString on an open file and the scanner return no error.  The       *)
(* reference holds only symbols the encoding tables define (the 15 IUPAC   *)
(* letters in both cases, '-', '?'); one query holds another byte.         *)
(*                                                                         *)
(* snps() is taken as a function of a process that lives on: after it has  *)
(* returned, the goroutines it started run on as far as they can.          *)
(***************************************************************************)
EXTENDS Integers, Sequences, FiniteSets, TLC

VARIABLES
    hardGaps,      \* snps() parameter
    aggregate,     \* snps() parameter
    threshold,     \* snps() parameter, a rational <<numerator, denominator>>
    numCPU,        \* runtime.NumCPU()
    refFile,       \* lines of the reference stream
    alnFile,       \* lines of the alignment stream
    queries,       \* the records the alignment stream was laid out from
    main,          \* snps(): [pc, ret]
    refSeq,        \* snps(): refSeq
    rd,            \* the running readEncodeAlignment
    cRefClosed,    \* close(cRef) has run
    cFRClosed,     \* close(cFR) has run
    wk,            \* the getSNPs goroutines
    wg,            \* wgSNPs counter
    waiter,        \* the goroutine of wgSNPs.Wait(); cSNPsDone <- true
    cSNPs,         \* buffer of the channel cSNPs
    cSNPsClosed,   \* close(cSNPs) has run
    wr,            \* the writer goroutine (writeOutput or aggregateWriteOutput)
    out,           \* lines written to the output file
    crashed,       \* a goroutine has panicked: the process is gone
    createFails,   \* os.Create(outFile) returns an error
    sentErr,       \* history: the goroutines whose send on cErr was received
    probe          \* inputs and results of the pure-function specifications

\* What a run is given: the parameters of snps(), the machine, the files.
inputs == <<hardGaps, aggregate, threshold, numCPU, createFails, refFile, alnFile,
            queries>>

pipevars == <<inputs, main, refSeq, rd, cRefClosed, cFRClosed, wk, wg, waiter,
              cSNPs, cSNPsClosed, wr, out, crashed, sentErr>>

vars == <<pipevars, probe>>

----------------------------------------------------------------------------
(* Bounds *)

MaxWorkers == 3
MaxQueries == 4
MaxDiffLen == 2

----------------------------------------------------------------------------
(* Bytes and strings *)

UpperLetters == <<"A","G","C","T","R","M","W","S","K","Y","V","H","D","B","N">>
LowerLetters == <<"a","g","c","t","r","m","w","s","k","y","v","h","d","b","n">>

Range(s) == {s[i] : i \in DOMAIN s}

\* The symbols the encoding tables define.
Symbols == Range(UpperLetters) \cup Range(LowerLetters) \cup {"-", "?"}

Digits == <<"0","1","2","3","4","5","6","7","8","9">>

\* Every byte that occurs in a stream of the model.
Bytes == Symbols \cup Range(Digits) \cup {">", " ", "Q", "e", "f", "x"}

\* The byte value of a character that the code compares with < (an allele).
Ascii(c) ==
    CASE c = "-" -> 45 [] c = "?" -> 63
      [] c = "0" -> 48 [] c = "1" -> 49 [] c = "2" -> 50 [] c = "3" -> 51
      [] c = "4" -> 52 [] c = "5" -> 53 [] c = "6" -> 54 [] c = "7" -> 55
      [] c = "8" -> 56 [] c = "9" -> 57
      [] c = "A" -> 65 [] c = "B" -> 66 [] c = "C" -> 67 [] c = "D" -> 68
      [] c = "G" -> 71 [] c = "H" -> 72 [] c = "K" -> 75 [] c = "M" -> 77
      [] c = "N" -> 78 [] c = "R" -> 82 [] c = "S" -> 83 [] c = "T" -> 84
      [] c = "V" -> 86 [] c = "W" -> 87 [] c = "Y" -> 89

\* a & b on bytes
RECURSIVE BitAnd(_, _)
BitAnd(a, b) ==
    IF a = 0 \/ b = 0 THEN 0
    ELSE (a % 2) * (b % 2) + 2 * BitAnd(a \div 2, b \div 2)

\* strconv.Itoa for n >= 0
RECURSIVE Itoa(_)
Itoa(n) ==
    IF n < 10 THEN <<Digits[n + 1]>>
    ELSE Itoa(n \div 10) \o <<Digits[(n % 10) + 1]>>

DigitVal(c) == CHOOSE d \in 0..9 : Digits[d + 1] = c

RECURSIVE AtoiDigits(_, _)
AtoiDigits(s, acc) ==
    IF s = <<>> THEN acc
    ELSE AtoiDigits(Tail(s), 10 * acc + DigitVal(Head(s)))

\* strconv.Atoi: an optional sign, then one or more decimal digits; anything
\* else is an error and the value is 0.
Atoi(s) ==
    LET body == IF s # <<>> /\ Head(s) \in {"+", "-"} THEN Tail(s) ELSE s
        neg  == s # <<>> /\ Head(s) = "-"
    IN  IF body = <<>> \/ \E i \in DOMAIN body : body[i] \notin Range(Digits)
        THEN [ok |-> FALSE, val |-> 0]
        ELSE [ok |-> TRUE,
              val |-> IF neg THEN 0 - AtoiDigits(body, 0) ELSE AtoiDigits(body, 0)]

\* strings.Join
RECURSIVE Join(_, _)
Join(ss, sep) ==
    IF ss = <<>> THEN <<>>
    ELSE IF Len(ss) = 1 THEN ss[1]
    ELSE ss[1] \o sep \o Join(Tail(ss), sep)

\* strings.Fields(s)[0]: the first whitespace-delimited token; ok is FALSE
\* when there is no token (the index expression then panics).
RECURSIVE TakeToken(_)
TakeToken(s) ==
    IF s = <<>> \/ Head(s) = " " THEN <<>>
    ELSE <<Head(s)>> \o TakeToken(Tail(s))

RECURSIVE FirstField(_)
FirstField(s) ==
    IF s = <<>> THEN [ok |-> FALSE, tok |-> <<>>]
    ELSE IF Head(s) = " " THEN FirstField(Tail(s))
    ELSE [ok |-> TRUE, tok |-> TakeToken(s)]

----------------------------------------------------------------------------
(* Symbol codec *)

makeEncodingArray ==
    [b \in Bytes |->
        CASE b \in {"A", "a"} -> 136
          [] b \in {"G", "g"} -> 72
          [] b \in {"C", "c"} -> 40
          [] b \in {"T", "t"} -> 24
          [] b \in {"R", "r"} -> 192
          [] b \in {"M", "m"} -> 160
          [] b \in {"W", "w"} -> 144
          [] b \in {"S", "s"} -> 96
          [] b \in {"K", "k"} -> 80
          [] b \in {"Y", "y"} -> 48
          [] b \in {"V", "v"} -> 224
          [] b \in {"H", "h"} -> 176
          [] b \in {"D", "d"} -> 208
          [] b \in {"B", "b"} -> 112
          [] b \in {"N", "n"} -> 240
          [] b = "-" -> 244
          [] b = "?" -> 242
          [] OTHER -> 0]

makeEncodingArrayHardGaps ==
    [b \in Bytes |->
        CASE b \in {"A", "a"} -> 136
          [] b \in {"G", "g"} -> 72
          [] b \in {"C", "c"} -> 40
          [] b \in {"T", "t"} -> 24
          [] b \in {"R", "r"} -> 192
          [] b \in {"M", "m"} -> 160
          [] b \in {"W", "w"} -> 144
          [] b \in {"S", "s"} -> 96
          [] b \in {"K", "k"} -> 80
          [] b \in {"Y", "y"} -> 48
          [] b \in {"V", "v"} -> 224
          [] b \in {"H", "h"} -> 176
          [] b \in {"D", "d"} -> 208
          [] b \in {"B", "b"} -> 112
          [] b \in {"N", "n"} -> 240
          [] b = "-" -> 4
          [] b = "?" -> 242
          [] OTHER -> 0]

\* The decoding tables hold Go strings: "" for every code that is not set.
makeDecodingArray ==
    [c \in 0..255 |->
        CASE c = 136 -> <<"A">> [] c = 72 -> <<"G">> [] c = 40 -> <<"C">>
          [] c = 24 -> <<"T">> [] c = 192 -> <<"R">> [] c = 160 -> <<"M">>
          [] c = 144 -> <<"W">> [] c = 96 -> <<"S">> [] c = 80 -> <<"K">>
          [] c = 48 -> <<"Y">> [] c = 224 -> <<"V">> [] c = 176 -> <<"H">>
          [] c = 208 -> <<"D">> [] c = 112 -> <<"B">> [] c = 240 -> <<"N">>
          [] c = 244 -> <<"-">> [] c = 242 -> <<"?">>
          [] OTHER -> <<>>]

makeDecodingArrayHardGaps ==
    [c \in 0..255 |->
        CASE c = 136 -> <<"A">> [] c = 72 -> <<"G">> [] c = 40 -> <<"C">>
          [] c = 24 -> <<"T">> [] c = 192 -> <<"R">> [] c = 160 -> <<"M">>
          [] c = 144 -> <<"W">> [] c = 96 -> <<"S">> [] c = 80 -> <<"K">>
          [] c = 48 -> <<"Y">> [] c = 224 -> <<"V">> [] c = 176 -> <<"H">>
          [] c = 208 -> <<"D">> [] c = 112 -> <<"B">> [] c = 240 -> <<"N">>
          [] c = 4 -> <<"-">> [] c = 242 -> <<"?">>
          [] OTHER -> <<>>]

\* Mutants of EncodingFor: the two cases swapped; the flag ignored.
EncodingForSwapped(hard) ==
    IF hard THEN makeEncodingArray ELSE makeEncodingArrayHardGaps

EncodingForIgnoresFlag(hard) == makeEncodingArray

\* switch hardGaps in readEncodeAlignment
EncodingFor(hard) ==
    IF hard THEN makeEncodingArrayHardGaps ELSE makeEncodingArray

\* Mutant of DecodingFor: the flag ignored.
DecodingForIgnoresFlag(hard) == makeDecodingArray

\* switch hardGaps in getSNPs
DecodingFor(hard) ==
    IF hard THEN makeDecodingArrayHardGaps ELSE makeDecodingArray

\* encodedLine[i] = encoding[line[i]]
EncodeLine(encoding, line) == [i \in DOMAIN line |-> encoding[line[i]]]

\* Mutant of IsSNP: <= for <.
IsSNPInclusive(r, q) == BitAnd(r, q) <= 16

\* The test of getSNPs: (refSeq[i] & nuc) < 16
IsSNP(r, q) == BitAnd(r, q) < 16

----------------------------------------------------------------------------
(* readEncodeAlignment *)

\* The locals of a reader before its first line.
NewReader(which) ==
    [which |-> which, pc |-> "scan", i |-> 1, first |-> TRUE, id |-> <<>>,
     description |-> <<>>, seqBuffer |-> <<>>, counter |-> 0]

NoReader == [NewReader("none") EXCEPT !.pc = "done"]

\* description = string(line[1:]); id = strings.Fields(description)[0]
\* The index expression panics when the description holds no token.
SetHeader(r, line) ==
    LET f == FirstField(Tail(line))
    IN  IF f.ok THEN [r EXCEPT !.description = Tail(line), !.id = f.tok]
        ELSE [r EXCEPT !.description = Tail(line), !.pc = "panic"]

\* The loop `for s.Scan()` from line r.i up to the reader's next channel
\* operation: "sendErr" (chnlerr <- errors.New), "sendRec" (chnl <- fr inside
\* the loop), "sendLast" (chnl <- fr after the loop), or "panic" (line[0] of
\* an empty line, Fields(...)[0] of an empty description).
RECURSIVE Scan(_, _, _)
Scan(r, file, encoding) ==
    IF r.pc = "panic" THEN r
    ELSE IF r.i > Len(file) THEN [r EXCEPT !.pc = "sendLast"]
    ELSE LET line == file[r.i]
         IN  IF line = <<>> THEN [r EXCEPT !.pc = "panic"]
             ELSE IF r.first THEN
                 IF line[1] # ">" THEN [r EXCEPT !.pc = "sendErr"]
                 ELSE Scan([SetHeader(r, line) EXCEPT !.first = FALSE, !.i = @ + 1],
                           file, encoding)
             ELSE IF line[1] = ">" THEN [r EXCEPT !.pc = "sendRec"]
             ELSE Scan([r EXCEPT !.seqBuffer = @ \o EncodeLine(encoding, line),
                                 !.i = @ + 1],
                       file, encoding)

\* go readEncodeAlignment(...): the reader up to its first channel operation.
StartReader(which, file, encoding) == Scan(NewReader(which), file, encoding)

\* fr := encodedFastaRecord{ID: id, Description: description, Seq: seqBuffer, idx: counter}
RecordOf(r) ==
    [ID |-> r.id, Description |-> r.description, Seq |-> r.seqBuffer, idx |-> r.counter]

\* The reader once chnlerr <- err of the first-line test has been received:
\* it goes on with the rest of the branch and the loop.
AfterErr(r, file, encoding) ==
    Scan([SetHeader(r, file[r.i]) EXCEPT !.first = FALSE, !.i = @ + 1], file, encoding)

\* The reader once chnl <- fr has been received.  Inside the loop: counter++,
\* the new header, a fresh seqBuffer, and on with the loop.  After the loop:
\* s.Err() is nil and the reader is at cdone <- true.
AfterSend(r, file, encoding) ==
    IF r.pc = "sendRec"
    THEN Scan([SetHeader(r, file[r.i]) EXCEPT !.counter = @ + 1, !.seqBuffer = <<>>,
                                              !.i = @ + 1],
              file, encoding)
    ELSE [r EXCEPT !.pc = "sendDone"]

----------------------------------------------------------------------------
(* getSNPs *)

\* Mutant of SNPCall: the 0-based index rendered as it is.
SNPCallZeroBased(DA, r, i, nuc) == DA[r] \o Itoa(i) \o DA[nuc]

\* snpLine := DA[refSeq[i]] + strconv.Itoa(i+1) + DA[nuc]     (i is 0-based)
SNPCall(DA, r, i, nuc) == DA[r] \o Itoa(i + 1) \o DA[nuc]

\* for i, nuc := range FR.Seq { if (refSeq[i] & nuc) < 16 { append } }
\* refSeq[i] is out of range, and the goroutine panics, when the query is
\* longer than the reference.
RECURSIVE SNPLoop(_, _, _, _, _)
SNPLoop(ref, DA, seq, i, SNPs) ==
    IF i >= Len(seq) THEN [panic |-> FALSE, snps |-> SNPs]
    ELSE IF i >= Len(ref) THEN [panic |-> TRUE, snps |-> SNPs]
    ELSE IF IsSNP(ref[i + 1], seq[i + 1])
         THEN SNPLoop(ref, DA, seq, i + 1,
                      Append(SNPs, SNPCall(DA, ref[i + 1], i, seq[i + 1])))
         ELSE SNPLoop(ref, DA, seq, i + 1, SNPs)

\* The body of `for FR := range cFR` up to cSNPs <- SL.
MakeSNPLine(ref, hard, FR) ==
    LET res == SNPLoop(ref, DecodingFor(hard), FR.Seq, 0, <<>>)
    IN  [panic |-> res.panic,
         SL |-> [queryname |-> FR.ID, snps |-> res.snps, idx |-> FR.idx]]

\* snpLine{}
ZeroSL == [queryname |-> <<>>, snps |-> <<>>, idx |-> 0]

----------------------------------------------------------------------------
(* writeOutput *)

HeaderPerQuery == <<"q","u","e","r","y",",","S","N","P","s">>

\* SL.queryname + "," + strings.Join(SL.snps, "|") + "\n"   (one WriteString)
ResultLine(SL) == SL.queryname \o <<",">> \o Join(SL.snps, <<"|">>)

\* A Go map read: the zero value when the key is absent.
MapGet(m, k) == IF k \in DOMAIN m THEN m[k] ELSE ZeroSL

MapPut(m, k, v) == [x \in DOMAIN m \cup {k} |-> IF x = k THEN v ELSE m[x]]

MapDelete(m, k) == [x \in DOMAIN m \ {k} |-> m[x]]

\* Mutant of OnArrival: the arrival is written at once, no reordering.
OnArrivalUnordered(w, lines, SL) ==
    [w |-> [w EXCEPT !.counter = @ + 1], out |-> Append(lines, ResultLine(SL))]

\* The entries of counter, counter + 1, ... written and deleted as long as
\* the map holds the next one.
RECURSIVE DrainRun(_, _)
DrainRun(w, lines) ==
    IF w.counter \in DOMAIN w.outputMap
    THEN DrainRun([w EXCEPT !.outputMap = MapDelete(@, w.counter), !.counter = @ + 1],
                  Append(lines, ResultLine(w.outputMap[w.counter])))
    ELSE [w |-> w, out |-> lines]

\* Mutant of OnArrival: a loop in place of the if, the whole run is written.
OnArrivalDrain(w, lines, SL) ==
    DrainRun([w EXCEPT !.outputMap = MapPut(@, SL.idx, SL)], lines)

\* Mutant of OnArrival: the entry written is not deleted from the map.
OnArrivalKeepsEntry(w, lines, SL) ==
    LET m == MapPut(w.outputMap, SL.idx, SL)
    IN  IF w.counter \in DOMAIN m
        THEN [w   |-> [w EXCEPT !.outputMap = m, !.counter = @ + 1],
              out |-> Append(lines, ResultLine(m[w.counter]))]
        ELSE [w   |-> [w EXCEPT !.outputMap = m],
              out |-> lines]

\* The body of `for snpLine := range cSNPs` of writeOutput on one arrival:
\* store it, then write and delete the entry of counter if there is one.
OnArrival(w, lines, SL) ==
    LET m == MapPut(w.outputMap, SL.idx, SL)
    IN  IF w.counter \in DOMAIN m
        THEN [w   |-> [w EXCEPT !.outputMap = MapDelete(m, w.counter),
                                !.counter = @ + 1],
              out |-> Append(lines, ResultLine(m[w.counter]))]
        ELSE [w   |-> [w EXCEPT !.outputMap = m],
              out |-> lines]

\* Mutant of FlushStep: what is still buffered is dropped, not written.
FlushStepDrop(w, lines) ==
    [w |-> [w EXCEPT !.pc = "sendDone", !.outputMap = <<>>], out |-> lines]

\* One turn of the loop after the range loop of writeOutput.
FlushStep(w, lines) ==
    IF Cardinality(DOMAIN w.outputMap) = 0
    THEN [w |-> [w EXCEPT !.pc = "sendDone"], out |-> lines]
    ELSE [w   |-> [w EXCEPT !.outputMap = MapDelete(@, w.counter),
                            !.counter = @ + 1],
          out |-> Append(lines, ResultLine(MapGet(w.outputMap, w.counter)))]

----------------------------------------------------------------------------
(* aggregateWriteOutput *)

HeaderAggregate ==
    <<"c","h","a","n","g","e",",","p","r","o","p","o","r","t","i","o","n">>

\* for _, snp := range snpLine.snps { propMap[snp]++ or = 1.0 }
RECURSIVE Tally(_, _)
Tally(propMap, snps) ==
    IF snps = <<>> THEN propMap
    ELSE LET snp == Head(snps)
             m   == IF snp \in DOMAIN propMap
                    THEN [propMap EXCEPT ![snp] = @ + 1]
                    ELSE [x \in DOMAIN propMap \cup {snp} |->
                             IF x = snp THEN 1 ELSE propMap[x]]
         IN  Tally(m, Tail(snps))

\* order[i][1 : len(order[i])-1]
PosText(snp) == SubSeq(snp, 2, Len(snp) - 1)

\* order[i][len(order[i])-1]
AltByte(snp) == Ascii(snp[Len(snp)])

\* Mutant of Less: the allele is not compared.
LessByPositionOnly(a, b) ==
    LET pi == Atoi(PosText(a))
        pj == Atoi(PosText(b))
    IN  [lt   |-> pi.val < pj.val,
         errs |-> (IF pi.ok THEN 0 ELSE 1) + (IF pj.ok THEN 0 ELSE 1)]

\* The less function handed to sort.SliceStable, on the elements a = order[i]
\* and b = order[j]: the answer, and how many times it sends on cErr.
Less(a, b) ==
    LET pi == Atoi(PosText(a))
        pj == Atoi(PosText(b))
    IN  [lt   |-> pi.val < pj.val \/ (pi.val = pj.val /\ AltByte(a) < AltByte(b)),
         errs |-> (IF pi.ok THEN 0 ELSE 1) + (IF pj.ok THEN 0 ELSE 1)]

Swap(s, i, j) == [s EXCEPT ![i] = s[j], ![j] = s[i]]

\* sort.SliceStable on at most 20 elements is this insertion sort:
\*   for i := a + 1; i < b; i++ {
\*       for j := i; j > a && less(j, j-1); j-- { swap(j, j-1) } }
\* st = [order, errs]; i and j are 1-based here.  The state after a swap or
\* after one insertion is bound to a name (nx) through a singleton set, so
\* that it is computed once.
RECURSIVE InsertDown(_, _)
InsertDown(st, j) ==
    IF j <= 1 THEN st
    ELSE LET l == Less(st.order[j], st.order[j - 1])
         IN  IF l.lt
             THEN CHOOSE r \in {InsertDown(nx, j - 1) :
                                  nx \in {[order |-> Swap(st.order, j, j - 1),
                                           errs  |-> st.errs + l.errs]}} : TRUE
             ELSE [st EXCEPT !.errs = @ + l.errs]

RECURSIVE InsertionSort(_, _)
InsertionSort(st, i) ==
    IF i > Len(st.order) THEN st
    ELSE CHOOSE r \in {InsertionSort(nx, i + 1) : nx \in {InsertDown(st, i)}} : TRUE

SliceStable(order) == InsertionSort([order |-> order, errs |-> 0], 2)

\* All orders in which `for k, _ := range propMap` can yield the keys.
RECURSIVE KeyOrders(_)
KeyOrders(S) ==
    IF S = {} THEN {<<>>}
    ELSE UNION {{<<k>> \o p : p \in KeyOrders(S \ {k})} : k \in S}

RECURSIVE Pow10(_)
Pow10(n) == IF n = 0 THEN 1 ELSE 10 * Pow10(n - 1)

RECURSIVE PadLeft(_, _)
PadLeft(ds, n) == IF Len(ds) >= n THEN ds ELSE PadLeft(<<"0">> \o ds, n)

\* strconv.FormatFloat(num/den, 'f', prec, 64) for 0 <= num/den, den > 0:
\* the value rounded to prec decimals, ties to even.
FormatFloat(num, den, prec) ==
    LET scaled == num * Pow10(prec)
        q      == scaled \div den
        r      == scaled % den
        n      == IF 2 * r > den \/ (2 * r = den /\ q % 2 = 1) THEN q + 1 ELSE q
    IN  Itoa(n \div Pow10(prec)) \o <<".">> \o PadLeft(Itoa(n % Pow10(prec)), prec)

\* Mutant of BelowThreshold: a proportion equal to the threshold is dropped.
BelowThresholdInclusive(count, counter, t) == count * t[2] <= t[1] * counter

\* propMap[snp]/counter < threshold, threshold = t[1]/t[2]
BelowThreshold(count, counter, t) == count * t[2] < t[1] * counter

\* snp + "," + strconv.FormatFloat(propMap[snp]/counter, 'f', 4, 64) + "\n"
AggregateLine(snp, count, counter) ==
    snp \o <<",">> \o FormatFloat(count, counter, 4)

\* for _, snp := range order { if below threshold { continue }; write }
RECURSIVE WriteAggregate(_, _, _, _, _)
WriteAggregate(lines, order, propMap, counter, t) ==
    IF order = <<>> THEN lines
    ELSE LET snp == Head(order)
         IN  IF BelowThreshold(propMap[snp], counter, t)
             THEN WriteAggregate(lines, Tail(order), propMap, counter, t)
             ELSE WriteAggregate(Append(lines, AggregateLine(snp, propMap[snp], counter)),
                                 Tail(order), propMap, counter, t)

----------------------------------------------------------------------------
(* Inputs *)

RefText == <<"A","T","G","A","T","G","A","T","G","A","T">>

\* Query sequences, all of the reference's length.  Against RefText they give
\* no call; G6C, A10C; G3T, G6W, A10C; and A10T (with A1- under hard gaps).
QueryPool ==
    << <<"A","T","G","A","T","G","A","T","G","A","T">>,
       <<"A","T","G","A","T","C","A","T","G","C","T">>,
       <<"A","T","T","A","T","W","A","T","G","c","T">>,
       <<"-","?","G","A","T","G","A","T","G","t","T">> >>

\* The k-th record of an alignment (k from 0): identifier Qk, and a
\* description on the odd ones.
QueryRecord(k) ==
    [id   |-> <<"Q">> \o Itoa(k),
     desc |-> IF k % 2 = 1 THEN <<" ", "x">> ELSE <<>>,
     seq  |-> QueryPool[(k % Len(QueryPool)) + 1]]

\* The FASTA lines of one record: the header, then the sequence on one line
\* (even ordinals) or folded after six columns (odd ordinals).
RecordLines(k, rec) ==
    << <<">">> \o rec.id \o rec.desc >> \o
    (IF k % 2 = 0 \/ Len(rec.seq) <= 6 THEN <<rec.seq>>
     ELSE <<SubSeq(rec.seq, 1, 6), SubSeq(rec.seq, 7, Len(rec.seq))>>)

RECURSIVE FastaLines(_, _)
FastaLines(recs, k) ==
    IF k >= Len(recs) THEN <<>>
    ELSE RecordLines(k, recs[k + 1]) \o FastaLines(recs, k + 1)

Alignment(n) == [k \in 1..n |-> QueryRecord(k - 1)]

\* A query of four columns, shorter than the reference; against RefText its
\* columns give G3T.
QueryShort == <<"A","T","T","A">>

\* A query one column longer than the reference.
QueryLong == RefText \o <<"A">>

\* A query with a byte the encoding tables leave at 0 in column 3; against
\* RefText it gives the calls "G3" (the byte decodes to ""), G6C and A10C.
QueryUndefined == <<"A","T","x","A","T","C","A","T","G","C","T">>

\* Two records: Q0 as ever, and Q1 with the given sequence.
AlignmentWith(seq) == <<QueryRecord(0), [QueryRecord(1) EXCEPT !.seq = seq]>>

\* The alignments: zero to MaxQueries records of the reference's length, and
\* the two-record ones whose second record is short, long or holds an
\* undefined byte.
Alignments ==
    {Alignment(n) : n \in 0..MaxQueries}
        \cup {AlignmentWith(seq) : seq \in {QueryShort, QueryLong, QueryUndefined}}

\* The alignments read after a reference of several records: what follows
\* the reference loop does not depend on how many records the reference
\* stream held, so the short ones are enough.
AlignmentsAfter(ref) ==
    IF Len(ref) > 2 THEN {Alignment(n) : n \in 1..2} ELSE Alignments

RefFileGood == << <<">","r","e","f">>, RefText >>

\* The sequence of a second reference record: of the reference's length and
\* different from it in columns 6 and 10.
RefAlt == <<"A","T","G","A","T","C","A","T","G","C","T">>

\* A reference stream of two records.
RefFileTwoRecords == RefFileGood \o << <<">","a","l","t">>, RefAlt >>

\* A stream whose first line is not a header.
FileNoHeader == << <<"A","T","G">> >>

\* A stream of no lines at all.
FileEmpty == <<>>

\* A stream that begins with an empty line; its first non-empty line is not
\* a header.
FileEmptyLineFirst == << <<>>, <<"A","T","G">> >>

\* The streams an alignment of the given records can come as: its FASTA
\* lines, or, there being no record, one of the three streams above.
StreamsOf(recs) ==
    IF recs = <<>> THEN {FileNoHeader, FileEmpty, FileEmptyLineFirst}
    ELSE {FastaLines(recs, 0)}

\* threshold values: 0 (the default), 1/2 and 0.26
Thresholds == {<<0, 1>>, <<1, 2>>, <<26, 100>>}

----------------------------------------------------------------------------
(* snps(): the coordinator and its goroutines *)

Workers == 1..numCPU

NewWriter ==
    [pc |-> "start", outputMap |-> <<>>, counter |-> 0, propMap |-> <<>>,
     errs |-> 0, order |-> <<>>]

NoWriter == [NewWriter EXCEPT !.pc = "none"]

\* The file the running reader reads.
FileOf(r) == IF r.which = "ref" THEN refFile ELSE alnFile

\* snps() is in one of its select loops, each of which has a case <-cErr.
InSelect == main.pc \in {"refLoop", "waitFR", "waitSNPs", "waitWrite"}

\* The state at the first select of snps(): the channels are made and the
\* reference reader has been started.  The threshold is varied where it is
\* read: in aggregate mode with an output file to write to.
Init ==
    /\ hardGaps \in BOOLEAN
    /\ aggregate \in BOOLEAN
    /\ createFails \in BOOLEAN
    /\ threshold \in (IF aggregate /\ ~createFails THEN Thresholds ELSE {<<0, 1>>})
    /\ numCPU \in 1..MaxWorkers
    /\ refFile \in {RefFileGood, RefFileTwoRecords, FileNoHeader}
    /\ queries \in AlignmentsAfter(refFile)
    /\ alnFile \in StreamsOf(queries)
    /\ main = [pc |-> "refLoop", ret |-> "none"]
    /\ refSeq = <<>>
    /\ rd = StartReader("ref", refFile, EncodingFor(hardGaps))
    /\ cRefClosed = FALSE
    /\ cFRClosed = FALSE
    /\ wk = [w \in Workers |-> [pc |-> "none", SL |-> ZeroSL]]
    /\ wg = 0
    /\ waiter = "none"
    /\ cSNPs = <<>>
    /\ cSNPsClosed = FALSE
    /\ wr = NoWriter
    /\ out = <<>>
    /\ crashed = (rd.pc = "panic")
    /\ sentErr = {}
    /\ probe = <<>>

\* case err := <-cErr: return err     (any of the four select loops)
\* The sender is the reader at chnlerr <- errors.New("badly formatted fasta file").
RecvErrFromReader ==
    /\ ~crashed /\ InSelect
    /\ rd.pc = "sendErr"
    /\ main' = [pc |-> "returned", ret |-> "err"]
    /\ rd' = AfterErr(rd, FileOf(rd), EncodingFor(hardGaps))
    /\ crashed' = (rd'.pc = "panic")
    /\ sentErr' = sentErr \cup {rd.which}
    /\ UNCHANGED <<inputs,
                   refSeq, cRefClosed, cFRClosed, wk, wg, waiter, cSNPs,
                   cSNPsClosed, wr, out, probe>>

\* case FR := <-cRef: refSeq = FR.Seq
RecvRef ==
    /\ ~crashed /\ main.pc = "refLoop"
    /\ rd.which = "ref" /\ rd.pc \in {"sendRec", "sendLast"}
    /\ refSeq' = RecordOf(rd).Seq
    /\ rd' = AfterSend(rd, refFile, EncodingFor(hardGaps))
    /\ crashed' = (rd'.pc = "panic")
    /\ UNCHANGED <<inputs,
                   main, cRefClosed, cFRClosed, wk, wg, waiter, cSNPs,
                   cSNPsClosed, wr, out, sentErr, probe>>

\* case <-cRefDone: close(cRef); n--   and then, up to the next select:
\* go readEncodeAlignment(alignmentFile, ...); go the writer; wgSNPs.Add;
\* go the workers; go the goroutine that waits for them.
RecvRefDone ==
    /\ ~crashed /\ main.pc = "refLoop"
    /\ rd.which = "ref" /\ rd.pc = "sendDone"
    /\ cRefClosed' = TRUE
    /\ rd' = StartReader("aln", alnFile, EncodingFor(hardGaps))
    /\ wr' = NewWriter
    /\ wg' = numCPU
    /\ wk' = [w \in Workers |-> [pc |-> "recv", SL |-> ZeroSL]]
    /\ waiter' = "wait"
    /\ main' = [main EXCEPT !.pc = "waitFR"]
    /\ crashed' = (rd'.pc = "panic")
    /\ UNCHANGED <<inputs,
                   refSeq, cFRClosed, cSNPs, cSNPsClosed, out, sentErr, probe>>

\* getSNPs: FR := <-cFR (range), the comparison loop, up to cSNPs <- SL.
WorkerRecv(w) ==
    /\ ~crashed /\ wk[w].pc = "recv"
    /\ rd.which = "aln" /\ rd.pc \in {"sendRec", "sendLast"}
    /\ LET res == MakeSNPLine(refSeq, hardGaps, RecordOf(rd))
       IN  /\ rd' = AfterSend(rd, alnFile, EncodingFor(hardGaps))
           /\ wk' = [wk EXCEPT ![w] = [pc |-> IF res.panic THEN "panic" ELSE "send",
                                       SL |-> res.SL]]
           /\ crashed' = (res.panic \/ rd'.pc = "panic")
    /\ UNCHANGED <<inputs,
                   main, refSeq, cRefClosed, cFRClosed, wg, waiter, cSNPs,
                   cSNPsClosed, wr, out, sentErr, probe>>

\* getSNPs: cSNPs <- SL on the buffered channel (capacity runtime.NumCPU()).
\* A send on a closed channel panics.
WorkerSend(w) ==
    /\ ~crashed /\ wk[w].pc = "send"
    /\ IF cSNPsClosed
       THEN /\ crashed' = TRUE
            /\ wk' = [wk EXCEPT ![w].pc = "panic"]
            /\ UNCHANGED cSNPs
       ELSE /\ Len(cSNPs) < numCPU
            /\ cSNPs' = Append(cSNPs, wk[w].SL)
            /\ wk' = [wk EXCEPT ![w] = [pc |-> "recv", SL |-> ZeroSL]]
            /\ UNCHANGED crashed
    /\ UNCHANGED <<inputs,
                   main, refSeq, rd, cRefClosed, cFRClosed, wg, waiter,
                   cSNPsClosed, wr, out, sentErr, probe>>

\* Mutant of WorkerReturn: the goroutine returns without wgSNPs.Done().
WorkerReturnNoDone(w) ==
    /\ ~crashed /\ wk[w].pc = "recv"
    /\ cFRClosed
    /\ wk' = [wk EXCEPT ![w].pc = "done"]
    /\ UNCHANGED <<inputs, main, refSeq, rd, cRefClosed, cFRClosed, wg, waiter, cSNPs,
                   cSNPsClosed, wr, out, crashed, sentErr, probe>>

\* getSNPs: the range over cFR ends when cFR is closed; return; wgSNPs.Done()
WorkerReturn(w) ==
    /\ ~crashed /\ wk[w].pc = "recv"
    /\ cFRClosed
    /\ wk' = [wk EXCEPT ![w].pc = "done"]
    /\ wg' = wg - 1
    /\ UNCHANGED <<inputs,
                   main, refSeq, rd, cRefClosed, cFRClosed, waiter, cSNPs,
                   cSNPsClosed, wr, out, crashed, sentErr, probe>>

\* case <-cFRDone: close(cFR); n--
RecvFRDone ==
    /\ ~crashed /\ main.pc = "waitFR"
    /\ rd.which = "aln" /\ rd.pc = "sendDone"
    /\ rd' = [rd EXCEPT !.pc = "done"]
    /\ cFRClosed' = TRUE
    /\ main' = [main EXCEPT !.pc = "waitSNPs"]
    /\ UNCHANGED <<inputs,
                   refSeq, cRefClosed, wk, wg, waiter, cSNPs, cSNPsClosed, wr,
                   out, crashed, sentErr, probe>>

\* Mutant of RecvSNPsDone: cSNPsDone <- true is sent without wgSNPs.Wait().
RecvSNPsDoneNoWait ==
    /\ ~crashed /\ main.pc = "waitSNPs"
    /\ waiter = "wait"
    /\ waiter' = "done"
    /\ cSNPsClosed' = TRUE
    /\ main' = [main EXCEPT !.pc = "waitWrite"]
    /\ UNCHANGED <<inputs, refSeq, rd, cRefClosed, cFRClosed, wk, wg, cSNPs, wr, out,
                   crashed, sentErr, probe>>

\* wgSNPs.Wait(); cSNPsDone <- true   received by   case <-cSNPsDone: close(cSNPs); n--
RecvSNPsDone ==
    /\ ~crashed /\ main.pc = "waitSNPs"
    /\ waiter = "wait" /\ wg = 0
    /\ waiter' = "done"
    /\ cSNPsClosed' = TRUE
    /\ main' = [main EXCEPT !.pc = "waitWrite"]
    /\ UNCHANGED <<inputs,
                   refSeq, rd, cRefClosed, cFRClosed, wk, wg, cSNPs, wr, out,
                   crashed, sentErr, probe>>

\* case <-cWriteDone: n--; return nil
RecvWriteDone ==
    /\ ~crashed /\ main.pc = "waitWrite"
    /\ wr.pc = "sendDone"
    /\ wr' = [wr EXCEPT !.pc = "done"]
    /\ main' = [pc |-> "returned", ret |-> "nil"]
    /\ UNCHANGED <<inputs,
                   refSeq, rd, cRefClosed, cFRClosed, wk, wg, waiter, cSNPs,
                   cSNPsClosed, out, crashed, sentErr, probe>>

\* writeOutput / aggregateWriteOutput up to the range over cSNPs: the file is
\* created and the header line written.  When os.Create fails the writer is
\* at the cErr <- err that follows it ("createErr").
WriterStart ==
    /\ ~crashed /\ wr.pc = "start"
    /\ IF createFails
       THEN /\ wr' = [wr EXCEPT !.pc = "createErr"]
            /\ UNCHANGED out
       ELSE /\ out' = <<IF aggregate THEN HeaderAggregate ELSE HeaderPerQuery>>
            /\ wr' = [wr EXCEPT !.pc = "loop"]
    /\ UNCHANGED <<inputs,
                   main, refSeq, rd, cRefClosed, cFRClosed, wk, wg, waiter, cSNPs,
                   cSNPsClosed, crashed, sentErr, probe>>

\* writeOutput: one turn of `for snpLine := range cSNPs`
WriteOutputRecv ==
    /\ ~crashed /\ ~aggregate /\ wr.pc = "loop"
    /\ cSNPs # <<>>
    /\ LET res == OnArrival(wr, out, Head(cSNPs))
       IN  wr' = res.w /\ out' = res.out
    /\ cSNPs' = Tail(cSNPs)
    /\ UNCHANGED <<inputs,
                   main, refSeq, rd, cRefClosed, cFRClosed, wk, wg, waiter,
                   cSNPsClosed, crashed, sentErr, probe>>

\* writeOutput: the range ends, cSNPs being closed and drained
WriteOutputRangeEnd ==
    /\ ~crashed /\ ~aggregate /\ wr.pc = "loop"
    /\ cSNPs = <<>> /\ cSNPsClosed
    /\ wr' = [wr EXCEPT !.pc = "flush"]
    /\ UNCHANGED <<inputs,
                   main, refSeq, rd, cRefClosed, cFRClosed, wk, wg, waiter, cSNPs,
                   cSNPsClosed, out, crashed, sentErr, probe>>

\* writeOutput: one turn of `for n := 1; n > 0;`, which leaves the writer at
\* cWriteDone <- true once the map is empty
WriteOutputFlush ==
    /\ ~crashed /\ ~aggregate /\ wr.pc = "flush"
    /\ LET res == FlushStep(wr, out)
       IN  wr' = res.w /\ out' = res.out
    /\ UNCHANGED <<inputs,
                   main, refSeq, rd, cRefClosed, cFRClosed, wk, wg, waiter, cSNPs,
                   cSNPsClosed, crashed, sentErr, probe>>

\* aggregateWriteOutput: one turn of `for snpLine := range cSNPs`
AggregateRecv ==
    /\ ~crashed /\ aggregate /\ wr.pc = "loop"
    /\ cSNPs # <<>>
    /\ wr' = [wr EXCEPT !.counter = @ + 1,
                        !.propMap = Tally(@, Head(cSNPs).snps)]
    /\ cSNPs' = Tail(cSNPs)
    /\ UNCHANGED <<inputs,
                   main, refSeq, rd, cRefClosed, cFRClosed, wk, wg, waiter,
                   cSNPsClosed, out, crashed, sentErr, probe>>

\* Mutant of SortedKeys: the keys are left in the map's iteration order.
SortedKeysUnsorted(keys) == [order |-> keys, errs |-> 0]

\* The keys of propMap as the range over the map yielded them, sorted.
SortedKeys(keys) == SliceStable(keys)

\* aggregateWriteOutput from the end of the range to cWriteDone <- true: the
\* keys in the map's iteration order, the sort, the lines at or above the
\* threshold.  A less call that fails to parse a position sends on cErr
\* from inside the sort: the writer is then blocked there ("sortErr").
AggregateFinish ==
    /\ ~crashed /\ aggregate /\ wr.pc = "loop"
    /\ cSNPs = <<>> /\ cSNPsClosed
    /\ \E keys \in KeyOrders(DOMAIN wr.propMap) : \E st \in {SortedKeys(keys)} :
              IF st.errs > 0
              THEN /\ wr' = [wr EXCEPT !.pc = "sortErr", !.order = st.order,
                                       !.errs = st.errs]
                   /\ UNCHANGED out
              ELSE /\ wr' = [wr EXCEPT !.pc = "sendDone", !.order = st.order]
                   /\ out' = WriteAggregate(out, st.order, wr.propMap, wr.counter,
                                            threshold)
    /\ UNCHANGED <<inputs,
                   main, refSeq, rd, cRefClosed, cFRClosed, wk, wg, waiter, cSNPs,
                   cSNPsClosed, crashed, sentErr, probe>>

\* The writer once one of its sends on cErr has been received.
\* After os.Create failed f is nil, f.WriteString of the header returns an
\* error and the writer is at the next cErr <- err ("headerErr"); snps() has
\* returned on the first receipt, so that send has no receiver.
\* Inside the sort, the writer goes on to the next failing less call, and
\* after the last one to the lines and cWriteDone <- true.
AfterWriterErr(w, lines) ==
    IF w.pc = "createErr" THEN [w |-> [w EXCEPT !.pc = "headerErr"], out |-> lines]
    ELSE IF w.errs > 1 THEN [w |-> [w EXCEPT !.errs = @ - 1], out |-> lines]
    ELSE [w   |-> [w EXCEPT !.pc = "sendDone", !.errs = 0],
          out |-> WriteAggregate(lines, w.order, w.propMap, w.counter, threshold)]

\* Mutant of RecvErrFromWriter: the error is received and dropped, the select
\* loop goes on.
RecvErrFromWriterDropped ==
    /\ ~crashed /\ InSelect
    /\ wr.pc \in {"createErr", "sortErr"}
    /\ LET res == AfterWriterErr(wr, out)
       IN  wr' = res.w /\ out' = res.out
    /\ sentErr' = sentErr \cup {"writer"}
    /\ UNCHANGED <<inputs, main, refSeq, rd, cRefClosed, cFRClosed, wk, wg, waiter,
                   cSNPs, cSNPsClosed, crashed, probe>>

\* case err := <-cErr: return err     (any of the select loops)
\* The sender is the writer, at the cErr <- err after os.Create or at one
\* inside the less function of the sort.
RecvErrFromWriter ==
    /\ ~crashed /\ InSelect
    /\ wr.pc \in {"createErr", "sortErr"}
    /\ main' = [pc |-> "returned", ret |-> "err"]
    /\ LET res == AfterWriterErr(wr, out)
       IN  wr' = res.w /\ out' = res.out
    /\ sentErr' = sentErr \cup {"writer"}
    /\ UNCHANGED <<inputs, refSeq, rd, cRefClosed, cFRClosed, wk, wg, waiter, cSNPs,
                   cSNPsClosed, crashed, probe>>

Next ==
    \/ RecvErrFromReader
    \/ RecvErrFromWriter
    \/ RecvRef
    \/ RecvRefDone
    \/ \E w \in Workers : WorkerRecv(w)
    \/ \E w \in Workers : WorkerSend(w)
    \/ \E w \in Workers : WorkerReturn(w)
    \/ RecvFRDone
    \/ RecvSNPsDone
    \/ RecvWriteDone
    \/ WriterStart
    \/ WriteOutputRecv
    \/ WriteOutputRangeEnd
    \/ WriteOutputFlush
    \/ AggregateRecv
    \/ AggregateFinish

Spec == Init /\ [][Next]_vars

\* The Go scheduler runs a goroutine that can run: a channel operation that
\* has a partner, or a step that needs none, is not put off for ever.
FairSpec == Spec /\ WF_vars(Next)

----------------------------------------------------------------------------
(* The codec and getSNPs on their own: a reference line and a query line of
   equal length are encoded as readEncodeAlignment encodes them, compared as
   getSNPs compares them, and decoded with the decoding table. *)

\* Symbols of the lines that are extended beyond one column.
DiffRefSymbols == {"A", "G", "-"}
DiffQrySymbols == {"A", "T", "W", "-", "?"}

\* Pairs of lines to start from: the empty pair, the pairs of the tests
\* (TestSNPs, TestSNPsHardGaps), and a pair of nine equal columns.
DiffBases ==
    { [ref |-> <<>>, qry |-> <<>>],
      [ref |-> <<"A","T","G","A","T","G">>, qry |-> <<"A","T","G","A","T","G">>],
      [ref |-> <<"A","T","G","A","T","G">>, qry |-> <<"A","T","G","A","T","C">>],
      [ref |-> <<"A","T","G","A","T","G">>, qry |-> <<"A","T","T","T","T","W">>],
      [ref |-> <<"A","T","G","A","T","G">>, qry |-> <<"-","-","G","A","T","G">>],
      [ref |-> <<"A","T","G","A","T","G","A","T","G">>,
       qry |-> <<"A","T","G","A","T","G","A","T","G">>] }

DecodeSeq(DA, seq) == [i \in DOMAIN seq |-> DA[seq[i]]]

\* What the code makes of the pair of lines (ref, qry) under a gap policy.
Compare(hard, ref, qry, ext) ==
    LET eref == EncodeLine(EncodingFor(hard), ref)
        eqry == EncodeLine(EncodingFor(hard), qry)
        res  == SNPLoop(eref, DecodingFor(hard), eqry, 0, <<>>)
    IN  [hard |-> hard, ref |-> ref, qry |-> qry, ext |-> ext,
         refDec |-> DecodeSeq(DecodingFor(hard), eref),
         qryDec |-> DecodeSeq(DecodingFor(hard), eqry),
         differ |-> [i \in DOMAIN eqry |-> i <= Len(eref) /\ IsSNP(eref[i], eqry[i])],
         snps |-> res.snps, panic |-> res.panic]

\* The pipeline is not running in this specification.
PipelineIdle ==
    /\ hardGaps = FALSE /\ aggregate = FALSE /\ threshold = <<0, 1>>
    /\ numCPU = 1 /\ createFails = FALSE
    /\ refFile = <<>> /\ alnFile = <<>> /\ queries = <<>>
    /\ main = [pc |-> "returned", ret |-> "none"]
    /\ refSeq = <<>> /\ rd = NoReader
    /\ cRefClosed = FALSE /\ cFRClosed = FALSE
    /\ wk = <<>> /\ wg = 0 /\ waiter = "none"
    /\ cSNPs = <<>> /\ cSNPsClosed = FALSE
    /\ wr = NoWriter /\ out = <<>> /\ crashed = FALSE /\ sentErr = {}

InitPure ==
    /\ PipelineIdle
    /\ \E hard \in BOOLEAN, b \in DiffBases :
          probe = Compare(hard, b.ref, b.qry, 0)

\* One column of any two defined symbols.
ProbePair ==
    /\ probe.ref = <<>>
    /\ \E x \in Symbols, y \in Symbols :
          probe' = Compare(probe.hard, <<x>>, <<y>>, MaxDiffLen)
    /\ UNCHANGED pipevars

\* One more column on both lines.
ProbeExtend ==
    /\ probe.ext < MaxDiffLen
    /\ \E x \in DiffRefSymbols, y \in DiffQrySymbols :
          probe' = Compare(probe.hard, Append(probe.ref, x), Append(probe.qry, y),
                           probe.ext + 1)
    /\ UNCHANGED pipevars

NextPure == ProbePair \/ ProbeExtend

SpecPure == InitPure /\ [][NextPure]_vars

----------------------------------------------------------------------------
(* Claims about the codec and getSNPs, checked under SpecPure *)

\* The numbers of S in increasing order.
RECURSIVE Ascending(_)
Ascending(S) ==
    IF S = {} THEN <<>>
    ELSE LET m == CHOOSE x \in S : \A y \in S : x <= y
         IN  <<m>> \o Ascending(S \ {m})

\* The calls the claim C3 describes for a pair of lines of equal length, with
\* 1-based columns: one per column where the codes share no bit at or above 16.
ExpectedCalls(hard, ref, qry) ==
    LET enc  == EncodingFor(hard)
        DA   == DecodingFor(hard)
        hits == Ascending({i \in DOMAIN qry : BitAnd(enc[ref[i]], enc[qry[i]]) < 16})
    IN  [k \in DOMAIN hits |->
            DA[enc[ref[hits[k]]]] \o Itoa(hits[k]) \o DA[enc[qry[hits[k]]]]]

\* The column a call names.
CallPos(call) == Atoi(PosText(call)).val

\* probe.snps holds a call for column i.
HasCallAt(i) == \E k \in DOMAIN probe.snps : CallPos(probe.snps[k]) = i

TestRef == <<"A","T","G","A","T","G">>

\* C3: for a query as long as the reference, getSNPs yields exactly the calls
\* decode(r) + (i+1) + decode(q) of the columns where (r & q) < 16, in strictly
\* increasing column order, and nothing for the other columns; against ATGATG
\* the query ATGATG gives no call, ATGATC gives G6C, ATTTTW gives G3T|A4T|G6W.
C3_GetSNPsCalls ==
    /\ ~probe.panic
    /\ probe.snps = ExpectedCalls(probe.hard, probe.ref, probe.qry)
    /\ \A k \in 1..(Len(probe.snps) - 1) :
          CallPos(probe.snps[k]) < CallPos(probe.snps[k + 1])
    /\ probe.ref = TestRef =>
          /\ probe.qry = <<"A","T","G","A","T","G">> => probe.snps = <<>>
          /\ probe.qry = <<"A","T","G","A","T","C">> =>
                probe.snps = << <<"G","6","C">> >>
          /\ probe.qry = <<"A","T","T","T","T","W">> =>
                probe.snps = << <<"G","3","T">>, <<"A","4","T">>, <<"G","6","W">> >>

\* Two calls, the second in a column of two digits.
C3_Witness ==
    /\ Len(probe.ref) = 11
    /\ Len(probe.snps) = 2
    /\ CallPos(probe.snps[2]) = 11

ToUpper(c) ==
    IF \E i \in DOMAIN LowerLetters : LowerLetters[i] = c
    THEN UpperLetters[CHOOSE i \in DOMAIN LowerLetters : LowerLetters[i] = c]
    ELSE c

\* The IUPAC base set of a symbol (lookupChar of TestEncoding); under the hard
\* policy the gap has none.
BaseSet(c, hard) ==
    LET u == ToUpper(c)
    IN  CASE u \in {"A", "C", "G", "T"} -> {u}
          [] u = "R" -> {"A", "G"}
          [] u = "Y" -> {"C", "T"}
          [] u = "S" -> {"G", "C"}
          [] u = "W" -> {"A", "T"}
          [] u = "K" -> {"G", "T"}
          [] u = "M" -> {"A", "C"}
          [] u = "B" -> {"C", "G", "T"}
          [] u = "D" -> {"A", "G", "T"}
          [] u = "H" -> {"A", "C", "T"}
          [] u = "V" -> {"A", "C", "G"}
          [] u \in {"N", "?"} -> {"A", "C", "G", "T"}
          [] u = "-" -> IF hard THEN {} ELSE {"A", "C", "G", "T"}

\* C4: for any two defined symbols x and y, under both gap policies,
\* (encode(x) & encode(y)) < 16 exactly when the IUPAC base sets of x and y
\* are disjoint ('-' and '?' standing for all four bases under the soft
\* policy, '-' for none under the hard policy).
C4_PredicateIffDisjoint ==
    \A i \in DOMAIN probe.qry :
        probe.differ[i] <=>
            (BaseSet(probe.ref[i], probe.hard) \cap BaseSet(probe.qry[i], probe.hard) = {})

\* Two ambiguity codes in different cases that share no base, hard policy.
C4_Witness ==
    /\ probe.hard
    /\ probe.ref = <<"r">> /\ probe.qry = <<"Y">>
    /\ probe.differ[1]

\* C5: under each gap policy, with that policy's tables, decode(encode(x)) is
\* the upper-case form of x for every defined symbol x.
C5_RoundTrip ==
    /\ \A i \in DOMAIN probe.ref : probe.refDec[i] = <<ToUpper(probe.ref[i])>>
    /\ \A i \in DOMAIN probe.qry : probe.qryDec[i] = <<ToUpper(probe.qry[i])>>

\* A lower-case letter and the hard gap have gone through both tables.
C5_Witness ==
    /\ probe.hard
    /\ probe.ref = <<"w">> /\ probe.refDec = << <<"W">> >>
    /\ probe.qry = <<"-">> /\ probe.qryDec = << <<"-">> >>

GapOrUnknown == {"-", "?"}

\* C6: under the soft-gap policy a column where the query or the reference
\* holds '-' or '?' never gives a call, whatever defined symbol it is paired
\* with; reference ATGATG with query --GATG gives no call at all.
C6_SoftGapsNeverCall ==
    ~probe.hard =>
        /\ \A i \in DOMAIN probe.qry :
              (probe.ref[i] \in GapOrUnknown \/ probe.qry[i] \in GapOrUnknown)
                  => ~HasCallAt(i)
        /\ (probe.ref = TestRef /\ probe.qry = <<"-","-","G","A","T","G">>)
              => probe.snps = <<>>

\* The soft-gap scenario of the tests has been compared.
C6_Witness ==
    /\ ~probe.hard
    /\ probe.ref = TestRef /\ probe.qry = <<"-","-","G","A","T","G">>
    /\ probe.snps = <<>>

\* C7: under the hard-gap policy a column where the query holds '-' always
\* gives a call, whatever defined symbol the reference holds there; reference
\* ATGATG with query --GATG gives A1-|T2-.
C7_HardGapsAlwaysCall ==
    probe.hard =>
        /\ \A i \in DOMAIN probe.qry : probe.qry[i] = "-" => HasCallAt(i)
        /\ (Len(probe.qry) = 1 /\ probe.qry[1] = "-")
              => probe.snps = << <<ToUpper(probe.ref[1]), "1", "-">> >>
        /\ (probe.ref = TestRef /\ probe.qry = <<"-","-","G","A","T","G">>)
              => probe.snps = << <<"A","1","-">>, <<"T","2","-">> >>

\* A gap in the query against a gap in the reference, hard policy.
C7_Witness ==
    /\ probe.hard
    /\ probe.ref = <<"-">> /\ probe.qry = <<"-">>
    /\ probe.snps = << <<"-","1","-">> >>

----------------------------------------------------------------------------
(* Claims about the pipeline, checked under Spec *)

\* The text of a line before its first comma.
RECURSIVE BeforeComma(_)
BeforeComma(line) ==
    IF line = <<>> \/ Head(line) = "," THEN <<>>
    ELSE <<Head(line)>> \o BeforeComma(Tail(line))

\* The alignment is well formed (at least one record, every sequence of the
\* reference's length and of defined symbols) and the output file can be
\* created.
WellFormed ==
    /\ queries # <<>>
    /\ \A k \in DOMAIN queries :
          /\ Len(queries[k].seq) = Len(RefText)
          /\ Range(queries[k].seq) \subseteq Symbols
    /\ ~createFails

\* C1: in per-query mode the lines after the header are those of the query
\* records in input order (the k-th line is the k-th record's), whatever the
\* number of workers and the order in which results reach the writer.
C1_OrderPreserved ==
    (~aggregate /\ WellFormed) =>
        /\ Len(out) <= Len(queries) + 1
        /\ \A k \in 1..(Len(out) - 1) : BeforeComma(out[k + 1]) = queries[k].id

\* Results reached the writer out of order: two lines are out and two later
\* results are still in the map when the result queue has ended.
C1_Witness ==
    /\ ~aggregate /\ WellFormed
    /\ wr.pc = "flush"
    /\ Cardinality(DOMAIN wr.outputMap) >= 2
    /\ Len(out) >= 3

\* The records the alignment reader has handed over so far.
Emitted == rd.counter + (IF rd.pc \in {"sendDone", "done"} THEN 1 ELSE 0)

Holding == {w \in Workers : wk[w].pc = "send"}

\* C2: every record the reader emits is taken by exactly one worker, which
\* makes exactly one result, which the writer takes exactly once: at any time
\* the ordinals emitted are, without repetition, those held by workers, queued
\* in cSNPs, buffered in the writer's map or already written; and when snps
\* returns nil in per-query mode the output is the header and exactly one line
\* per query record.
C2_ExactlyOnce ==
    (~aggregate /\ WellFormed /\ rd.which = "aln") =>
        /\ {wk[w].SL.idx : w \in Holding}
             \cup {cSNPs[i].idx : i \in DOMAIN cSNPs}
             \cup DOMAIN wr.outputMap
             \cup 0..(wr.counter - 1)
           = 0..(Emitted - 1)
        /\ Cardinality(Holding) + Len(cSNPs) + Cardinality(DOMAIN wr.outputMap)
             + wr.counter = Emitted
        /\ wr.pc # "start" => Len(out) = wr.counter + 1
        /\ main.ret = "nil" =>
              /\ Emitted = Len(queries)
              /\ out[1] = HeaderPerQuery
              /\ Len(out) = Len(queries) + 1
              /\ \A k \in DOMAIN queries :
                    Cardinality({j \in 2..Len(out) :
                                    BeforeComma(out[j]) = queries[k].id}) = 1

\* snps has returned nil after a run of several workers and records.
C2_Witness ==
    /\ ~aggregate /\ numCPU >= 2 /\ Len(queries) >= 3
    /\ main.ret = "nil"
    /\ Len(out) = Len(queries) + 1

\* The calls of the k-th query record, by the description of claim C3.
CallsOf(k) == Range(ExpectedCalls(hardGaps, refFile[2], queries[k].seq))

AllCalls == UNION {CallsOf(k) : k \in DOMAIN queries}

\* c(s): the number of queries whose result holds the call s.
Occurrences(s) == Cardinality({k \in DOMAIN queries : s \in CallsOf(k)})

\* The calls of the lines written after the header.
WrittenCalls == {BeforeComma(out[j]) : j \in 2..Len(out)}

\* The writer of a run on a reference of one record and a well-formed
\* alignment has written the aggregate lines.
AggregateDone ==
    /\ aggregate /\ WellFormed /\ refFile = RefFileGood
    /\ wr.pc \in {"sendDone", "done"}

Before(a, b) ==
    \/ CallPos(a) < CallPos(b)
    \/ CallPos(a) = CallPos(b) /\ AltByte(a) < AltByte(b)

\* C9: in aggregate mode the call lines are in strictly ascending order of
\* (column as a number, allele byte), and no two distinct calls have the same
\* column and allele.
C9_AggregateSorted ==
    aggregate =>
        /\ \A j \in 2..(Len(out) - 1) :
              Before(BeforeComma(out[j]), BeforeComma(out[j + 1]))
        /\ \A a, b \in DOMAIN wr.propMap :
              a # b => (CallPos(a) # CallPos(b) \/ AltByte(a) # AltByte(b))

\* Six calls written: columns 1, 3, 6, 6, 10, 10, so that the numeric order
\* differs from the order of the texts and two columns hold two alleles.
C9_Witness ==
    /\ aggregate /\ hardGaps /\ threshold = <<0, 1>>
    /\ Len(out) = 7
    /\ BeforeComma(out[2]) = <<"A","1","-">>
    /\ BeforeComma(out[7]) = <<"A","1","0","T">>

RECURSIVE TallyAll(_, _)
TallyAll(propMap, results) ==
    IF results = <<>> THEN propMap
    ELSE TallyAll(Tally(propMap, Head(results).snps), Tail(results))

\* The output of the run in which the results arrive in input order and the
\* map yields its keys in one fixed order.
InOrderAggregate ==
    LET enc     == EncodingFor(hardGaps)
        ref     == EncodeLine(enc, refFile[2])
        results == [k \in DOMAIN queries |->
                       MakeSNPLine(ref, hardGaps,
                                   [ID |-> queries[k].id, Description |-> <<>>,
                                    Seq |-> EncodeLine(enc, queries[k].seq),
                                    idx |-> k - 1]).SL]
        propMap == TallyAll(<<>>, results)
        keys    == CHOOSE p \in KeyOrders(DOMAIN propMap) : TRUE
    IN  WriteAggregate(<<HeaderAggregate>>, SortedKeys(keys).order, propMap,
                       Len(queries), threshold)

\* C10: the aggregate output does not depend on the order in which results
\* arrive: every run on the same reference, alignment and threshold writes
\* the lines of the run in which they arrive in input order.
C10_ArrivalOrderIrrelevant ==
    AggregateDone => out = InOrderAggregate

\* A run of three workers over four records has finished writing.
C10_Witness ==
    /\ AggregateDone /\ hardGaps
    /\ numCPU = 3 /\ Len(queries) = 4 /\ threshold = <<26, 100>>
    /\ wr.pc = "done" /\ Len(out) = 2

----------------------------------------------------------------------------
(* Claims about termination, errors and shutdown *)

\* The reader, the workers, their waiter and the writer have all returned.
AllReturned ==
    /\ rd.pc = "done"
    /\ \A w \in Workers : wk[w].pc = "done"
    /\ waiter = "done"
    /\ wr.pc = "done"

\* C11: with a one-record reference, an alignment of one or more records of
\* the reference's length and no I/O failure, under fair scheduling the run
\* does not get stuck: whatever the number of workers (which is also the
\* capacity of the result queue), the reader, every worker and the writer
\* return and snps returns nil.
C11_Terminates ==
    (WellFormed /\ refFile = RefFileGood) ~> (main.ret = "nil" /\ AllReturned)

\* A finished run with a result queue of capacity one and more records than
\* that.
C11_Witness ==
    /\ WellFormed /\ refFile = RefFileGood
    /\ numCPU = 1 /\ Len(queries) = MaxQueries
    /\ main.ret = "nil" /\ AllReturned

\* A goroutine is at a send on cErr.
AtErrSend == rd.pc = "sendErr" \/ wr.pc \in {"createErr", "headerErr", "sortErr"}

\* C12: no error is swallowed.  Once a send on cErr by a reader or a writer
\* has been received, snps has returned an error (and so never returns nil);
\* snps returns nil only when no error was sent, no goroutine is waiting to
\* send one, and the writer has sent on cWriteDone.
C12_NoErrorSwallowed ==
    /\ sentErr # {} => main.ret = "err"
    /\ main.ret = "nil" => (sentErr = {} /\ ~AtErrSend /\ wr.pc = "done")

\* The aggregate writer has sent one error from inside its sort, has then
\* written its lines and is at cWriteDone <- true; snps has returned the error.
C12_Witness ==
    /\ aggregate /\ ~createFails
    /\ sentErr = {"writer"} /\ main.ret = "err"
    /\ wr.pc = "sendDone" /\ Len(out) >= 2

\* The ordinals for which a result exists in per-query mode: held by a worker
\* at its send, queued in cSNPs, buffered in the writer's map, or written.
ResultsMade ==
    {wk[w].SL.idx : w \in Holding}
        \cup {cSNPs[i].idx : i \in DOMAIN cSNPs}
        \cup DOMAIN wr.outputMap
        \cup 0..(wr.counter - 1)

\* C13: a query record whose length differs from the reference's, shorter or
\* longer, is rejected: no result is made of it (its processing faults) and
\* no line of the output bears its identifier.
C13_MismatchRejected ==
    (~aggregate /\ refFile = RefFileGood /\ rd.which = "aln") =>
        \A k \in DOMAIN queries :
            Len(queries[k].seq) # Len(RefText) =>
                /\ (k - 1) \notin ResultsMade
                /\ \A j \in 2..Len(out) : BeforeComma(out[j]) # queries[k].id

\* The first non-empty line of a stream does not start with '>'.
BadStart(file) ==
    \E i \in DOMAIN file :
        /\ file[i] # <<>> /\ file[i][1] # ">"
        /\ \A j \in 1..(i - 1) : file[j] = <<>>

\* C14: when the first non-empty line of the reference stream, or of the
\* alignment stream read after a good reference, does not start with '>',
\* the run does not succeed and does not fault otherwise: no goroutine
\* panics, snps does not return nil, and what it returns is the reader's
\* error.  Leading empty lines make no difference.
C14_FormatErrorReturned ==
    (BadStart(refFile) \/ (refFile = RefFileGood /\ BadStart(alnFile))) =>
        /\ ~crashed
        /\ main.ret # "nil"
        /\ (main.ret = "err" /\ ~createFails) => sentErr \subseteq {"ref", "aln"}

\* The text of a line after its first '.'.
RECURSIVE AfterDot(_)
AfterDot(line) ==
    IF line = <<>> THEN <<>>
    ELSE IF Head(line) = "." THEN Tail(line)
    ELSE AfterDot(Tail(line))

\* C15: in aggregate mode every proportion is written with exactly nine
\* digits after the decimal point; a call that two of four queries hold is
\* written with 0.500000000.
C15_NineDecimals ==
    aggregate =>
        /\ \A j \in 2..Len(out) :
              /\ Len(AfterDot(out[j])) = 9
              /\ Range(AfterDot(out[j])) \subseteq Range(Digits)
        /\ (WellFormed /\ Len(queries) = 4) =>
              \A j \in 2..Len(out) :
                  Occurrences(BeforeComma(out[j])) = 2 =>
                      out[j] = BeforeComma(out[j]) \o
                               <<",","0",".","5","0","0","0","0","0","0","0","0">>

----------------------------------------------------------------------------
(* Claims about the ordered writer *)

\* C16, as claimed: each arrival flushes the whole run of buffered results
\* that starts at the next expected ordinal, so once the writer has handled
\* an arrival its map does not hold the ordinal it expects next.
C16_RunFlushedOnArrival ==
    (~aggregate /\ wr.pc = "loop") => wr.counter \notin DOMAIN wr.outputMap

\* A step of the ordered writer that handles one arrival.
IsArrival == ~aggregate /\ wr.pc = "loop" /\ wr'.pc = "loop"
                 /\ Len(cSNPs') = Len(cSNPs) - 1

\* C16, amended: on each arrival the ordered writer buffers the result and
\* writes at most one line: the one of the next expected ordinal if the map
\* then holds it (that entry is deleted and the ordinal advances by one),
\* none otherwise.  What else is buffered stays in the map.
C16_OneLinePerArrival ==
    [][IsArrival =>
          LET SL   == Head(cSNPs)
              held == DOMAIN wr.outputMap \cup {SL.idx}
          IN  IF wr.counter \in held
              THEN /\ Len(out') = Len(out) + 1
                   /\ SubSeq(out', 1, Len(out)) = out
                   /\ BeforeComma(out'[Len(out')]) =
                         (IF SL.idx = wr.counter THEN SL
                          ELSE wr.outputMap[wr.counter]).queryname
                   /\ wr'.counter = wr.counter + 1
                   /\ DOMAIN wr'.outputMap = held \ {wr.counter}
              ELSE /\ out' = out
                   /\ wr'.counter = wr.counter
                   /\ DOMAIN wr'.outputMap = held]_vars

\* The writer has handled an arrival that made it write a line, and its map
\* still holds the ordinal it expects next.
C16_Witness ==
    /\ ~aggregate /\ wr.pc = "loop"
    /\ Len(out) >= 2
    /\ wr.counter \in DOMAIN wr.outputMap

\* C17: in per-query mode, once the header is written, the lines written are
\* those of the ordinals 0..counter-1 in that order; every key of the map is
\* at least counter; in the flush after the result stream has ended the map
\* holds exactly the ordinals from counter up to the last, so that the flush
\* writes them in order and never one that is absent; and the writer ends
\* with an empty map and one line per record.
C17_OrderedWriterInvariant ==
    (~aggregate /\ wr.pc \in {"loop", "flush", "sendDone", "done"}) =>
        /\ Len(out) = wr.counter + 1
        /\ WellFormed =>
              \A k \in 1..wr.counter : BeforeComma(out[k + 1]) = queries[k].id
        /\ \A k \in DOMAIN wr.outputMap :
              k >= wr.counter /\ wr.outputMap[k].idx = k
        /\ wr.pc = "flush" =>
              DOMAIN wr.outputMap = wr.counter..(Emitted - 1)
        /\ wr.pc \in {"sendDone", "done"} =>
              (wr.outputMap = <<>> /\ wr.counter = Emitted)

\* The flush has written one of several entries left in the map.
C17_Witness ==
    /\ ~aggregate /\ WellFormed /\ wr.pc = "flush"
    /\ wr.counter = 3 /\ DOMAIN wr.outputMap = {3}
    /\ Len(out) = 4

----------------------------------------------------------------------------
(* Claims about the channels and the reader *)

\* C18: no goroutine sends on a closed channel.  cRef is closed only once
\* the reference reader has sent on cRefDone; cFR only once the alignment
\* reader has sent its last record and then on cFRDone; cSNPs only once
\* every worker has returned: whenever cSNPs is closed no worker is at its
\* send or has a record in hand.
C18_NoSendOnClosed ==
    /\ cRefClosed => rd.which = "aln"
    /\ cFRClosed => (rd.which = "aln" /\ rd.pc = "done")
    /\ cSNPsClosed => (cFRClosed /\ wg = 0 /\ \A w \in Workers : wk[w].pc = "done")

\* cSNPs has been closed with results of several workers still queued in it.
C18_Witness ==
    /\ cSNPsClosed /\ numCPU >= 2 /\ Len(cSNPs) >= 2
    /\ \A w \in Workers : wk[w].pc = "done"

\* The lines of a stream that are headers.
HeaderAt(file) == {i \in DOMAIN file : file[i] # <<>> /\ file[i][1] = ">"}

\* The line of the k-th header (k from 0).
KthHeader(file, k) ==
    CHOOSE i \in HeaderAt(file) : Cardinality({j \in HeaderAt(file) : j < i}) = k

\* The text up to the first blank.
RECURSIVE UpToBlank(_)
UpToBlank(t) ==
    IF t = <<>> \/ Head(t) = " " THEN <<>> ELSE <<Head(t)>> \o UpToBlank(Tail(t))

\* The encoded lines a..b of a stream up to the next header, one after the other.
RECURSIVE EncodedUpToHeader(_, _)
EncodedUpToHeader(file, a) ==
    IF a > Len(file) \/ a \in HeaderAt(file) THEN <<>>
    ELSE EncodeLine(EncodingFor(hardGaps), file[a]) \o EncodedUpToHeader(file, a + 1)

\* C19: the reader emits exactly one record per header line, in stream
\* order: never more records than headers (none for a stream without a
\* header), all of them once it is done; the record it is sending has its
\* ordinal k, the identifier of the k-th header and the encoded sequence
\* lines from that header to the next header or the end of the stream.
C19_OneRecordPerHeader ==
    LET file == FileOf(rd)
        n    == Cardinality(HeaderAt(file))
    IN  /\ Emitted <= n
        /\ rd.pc \in {"sendDone", "done"} => Emitted = n
        /\ (rd.pc \in {"sendRec", "sendLast"} /\ rd.counter < n) =>
              LET fr == RecordOf(rd)
                  h  == KthHeader(file, rd.counter)
              IN  /\ fr.idx = rd.counter
                  /\ fr.ID = UpToBlank(Tail(file[h]))
                  /\ fr.Seq = EncodedUpToHeader(file, h + 1)

\* Every goroutine snps started has returned, or was never started.
TasksEnded ==
    /\ rd.pc = "done"
    /\ \A w \in Workers : wk[w].pc \in {"none", "done"}
    /\ waiter \in {"none", "done"}
    /\ wr.pc \in {"none", "done"}

\* C20: once snps has returned an error the pipeline unwinds: a run does not
\* come to rest (no step possible) with a reader, a worker or the writer
\* still at a channel operation.
C20_PipelineUnwinds ==
    (main.ret = "err" /\ ~crashed /\ ~ENABLED Next) => TasksEnded

----------------------------------------------------------------------------
(* Claims about the reference stream *)

\* The reference stream holds more than one record.
SeveralReferenceRecords == Cardinality(HeaderAt(refFile)) > 1

\* C21: a reference stream that holds more than one record is an error: the
\* run fails, snps never returns nil on such a stream (which it could only
\* do with one of the records taken as the reference).
C21_SeveralRecordsRejected ==
    SeveralReferenceRecords => main.ret # "nil"

====
